---- MODULE Spec2Model ----
(***************************************************************************)
(* A model of FileToMindmapApp (src/main.py): the Tk control thread with   *)
(* its re-entrant event loop (every self.log() ends in root.update()), the *)
(* background threads started by ask_question and by the two publish       *)
(* handlers, the callbacks they post with root.after(0, ...), and the      *)
(* session state (document, artifact, transcript, buttons).                *)
(*                                                                         *)
(* Text is a sequence of tokens.  " " is white space, "x" an ordinary      *)
(* character, and "FAILED" stands for the phrase that display_answer looks *)
(* for in an answer (line 1007).  Fixed phrases of the program's own       *)
(* messages are single tokens as well.                                     *)
(***************************************************************************)
EXTENDS Naturals, Integers, Sequences, FiniteSets, TLC

VARIABLES
    deepseek_key,          \* os.getenv("DEEPSEEK_API_KEY") is set
    deepseek_client,       \* self.deepseek_client is not None
    kimi_key,              \* os.getenv("KIMI_API_KEY") is set
    selenium_available,    \* self.selenium_available
    pyperclip_available,   \* self.pyperclip_available
    current_file_content,  \* self.current_file_content
    current_file_path,     \* self.current_file_path
    generated_markdown,    \* self.generated_markdown
    conversation_history,  \* self.conversation_history
    question_var,          \* self.question_var
    generate_btn,          \* state of self.generate_btn
    save_btn,              \* state of self.save_btn
    ask_btn,               \* state of self.ask_btn
    stack,                 \* control thread: handlers suspended in root.update()
    after_queue,           \* callbacks posted with root.after(0, ...)
    threads,               \* background threads that have not finished
    temp_files,            \* the files of tempfile.gettempdir()
    clipboard,             \* the system clipboard
    clock,                 \* int(datetime.datetime.now().timestamp())
    events,                \* number of user events so far
    log_text,              \* self.log_text: the entries inserted by a thread other
                           \* than the control thread, in no order
    calls,                 \* per accepted call: what it is, requests issued, steps
                           \* taken outside the program, outcome
    dialogs                \* message boxes shown, in order

vars == <<deepseek_key, deepseek_client, kimi_key, selenium_available,
          pyperclip_available, current_file_content, current_file_path,
          generated_markdown, conversation_history, question_var,
          generate_btn, save_btn, ask_btn, stack, after_queue, threads,
          temp_files, clipboard, clock, events, log_text, calls, dialogs>>

config == <<deepseek_key, deepseek_client, kimi_key, selenium_available,
            pyperclip_available>>

----------------------------------------------------------------------------
(* Bounds *)

MaxLen == 2        \* longest text the environment supplies
MaxEvents == 3     \* user events in one run, accepted save and publish calls aside
MaxDepth == 2      \* handlers nested through root.update()
MaxExample == 1    \* example buttons within reach: the first MaxExample of the six
MaxAnswer == 1     \* longest answer to a question
MaxWrites == 2     \* accepted save and publish calls in one run

----------------------------------------------------------------------------
(* Text *)

Alphabet == {" ", "x"}

TextsOver(alphabet) == UNION {[1..n -> alphabet] : n \in 0..MaxLen}

\* what a file holds, what the user types, what a provider answers
Texts == TextsOver(Alphabet)

\* an answer to a question may also hold the phrase display_answer looks for
ChatAnswers == {t \in TextsOver(Alphabet \cup {"FAILED"}) : Len(t) <= MaxAnswer}

None == <<"None">>      \* a text-valued slot holding no text
NoModel == ""
NORMAL == "normal"
DISABLED == "disabled"

Models == {"DeepSeek", "Kimi"}

RECURSIVE lstrip(_)
lstrip(s) == IF s # <<>> /\ Head(s) = " " THEN lstrip(Tail(s)) ELSE s

RECURSIVE rstrip(_)
rstrip(s) ==
    IF s # <<>> /\ s[Len(s)] = " " THEN rstrip(SubSeq(s, 1, Len(s) - 1)) ELSE s

\* str.strip()
strip(s) == rstrip(lstrip(s))

\* sub in s
Contains(sub, s) ==
    \E i \in 0..(Len(s) - Len(sub)) : SubSeq(s, i + 1, i + Len(sub)) = sub

\* s[:n]
Prefix(s, n) == SubSeq(s, 1, IF Len(s) < n THEN Len(s) ELSE n)

----------------------------------------------------------------------------
(* Program constants *)

SummaryLen == 200           \* update_chat_file_status: current_file_content[:200]

SYSTEM == <<"system">>      \* sender of a system message
YOU == <<"you">>            \* sender of a question
Assistant(ai_model) == <<ai_model, "assistant">>

MarkTimeout == <<"API_TIMEOUT">>          \* "API调用超时"
MarkRequest == <<"API_REQUEST_FAILED">>   \* "API请求失败"
MarkFailed == <<"FAILED">>                \* "回答失败"

Paths == {"a.txt", "b.txt"}

KIMI_SLIDES == "https://www.kimi.com/slides"
XMIND == "https://app.xmind.cn/home/my-works"

\* the six example questions of setup_chat_tab
example_questions == <<"q1", "q2", "q3", "q4", "q5", "q6">>

----------------------------------------------------------------------------
(* The control thread *)

Top == stack[Len(stack)]
Pop == SubSeq(stack, 1, Len(stack) - 1)
Goto(pc) == [stack EXCEPT ![Len(stack)].pc = pc]
Running(h, pc) == stack # <<>> /\ Top.h = h /\ Top.pc = pc
Frame(h, pc, call, ai_model, arg) ==
    [h |-> h, pc |-> pc, call |-> call, ai_model |-> ai_model, arg |-> arg]

\* A user event is dispatched by mainloop() or by a root.update() in progress.
UserEvent == events < MaxEvents
CanNest == Len(stack) < MaxDepth

Entry(sender, message, call) ==
    [sender |-> sender, message |-> message, call |-> call]

\* the entry put in front of the list instead
add_at_front(history, sender, message, call) ==
    <<Entry(sender, message, call)>> \o history

\* add_to_chat_history: the list after the append
add_to_chat_history(history, sender, message, call) ==
    Append(history, Entry(sender, message, call))

Dialog(kind, call) == [kind |-> kind, call |-> call]
Call(op, ai_model, arg) ==
    [op |-> op, ai_model |-> ai_model, arg |-> arg, requests |-> 0, steps |-> <<>>,
     status |-> "running"]

Effect(step, text) == [step |-> step, text |-> text]

\* the calls once call has taken a step that shows outside the program
Did(cs, call, step, text) == [cs EXCEPT ![call].steps = Append(@, Effect(step, text))]

\* the calls once call has come to an outcome
Ended(cs, call, status) == [cs EXCEPT ![call].status = status]

\* the DeepSeek / Kimi check of generate_content and ask_question
CredentialPresent(ai_model) ==
    IF ai_model = "DeepSeek" THEN deepseek_key /\ deepseek_client ELSE kimi_key

----------------------------------------------------------------------------
(* Initial state: after __init__ *)

Init ==
    /\ deepseek_key \in BOOLEAN
    /\ deepseek_client \in BOOLEAN
    /\ deepseek_client => deepseek_key
    /\ kimi_key \in BOOLEAN
    /\ selenium_available \in BOOLEAN
    /\ pyperclip_available \in BOOLEAN
    /\ current_file_content = <<>>
    /\ current_file_path = ""
    /\ generated_markdown = <<>>
    /\ conversation_history = <<>>
    /\ question_var = <<>>
    /\ generate_btn = DISABLED
    /\ save_btn = DISABLED
    /\ ask_btn = DISABLED
    /\ stack = <<>>
    /\ after_queue = <<>>
    /\ threads = {}
    /\ temp_files = [name \in {} |-> <<>>]
    /\ clipboard = None
    /\ clock = 0
    /\ events = 0
    /\ log_text = {}
    /\ calls = <<>>
    /\ dialogs = <<>>

session == <<current_file_content, current_file_path, generated_markdown>>
buttons == <<generate_btn, save_btn, ask_btn>>
chat == <<conversation_history, question_var>>
world == <<temp_files, clipboard, clock>>

----------------------------------------------------------------------------
(* extract_file_content *)

Unreadable == <<"Unreadable">>     \* open() or the format reader raises

\* what the reader of a file may deliver
FileContents == Texts \cup {Unreadable}

\* two bytes that are a character in GBK and no valid sequence in UTF-8
GBKChar == "D6D0"

\* what a file may hold: characters of the alphabet and such bytes
ByteFiles == TextsOver(Alphabet \cup {GBKChar})

\* f.read() of open(filepath, 'r', encoding=encoding, errors='ignore'); with
\* errors='ignore' the bytes that cannot be decoded are left out and no
\* UnicodeDecodeError is raised
decode(bytes, encoding) ==
    IF encoding = "utf-8"
    THEN SelectSeq(bytes, LAMBDA b : b # GBKChar)
    ELSE [i \in DOMAIN bytes |-> IF bytes[i] = GBKChar THEN "zhong" ELSE bytes[i]]

\* the text as read, without lines 779-781
extract_untrimmed(raw) == IF raw = Unreadable THEN None ELSE raw

\* the returned text, or None when extract_file_content raises.  The except
\* clause of lines 775-778 is not reached from the text readers, which never
\* raise UnicodeDecodeError.
extract_file_content(raw) ==
    IF raw = Unreadable THEN None
    ELSE LET content == decode(raw, "utf-8")
         IN IF strip(content) = <<>> THEN None ELSE strip(content)

\* the message update_chat_file_status appends
FileSummary(path, content) ==
    <<"loaded", path>> \o Prefix(content, SummaryLen) \o <<"...">>

----------------------------------------------------------------------------
(* load_and_preview_file *)

\* lines 700-701: the path is stored, then log() runs the event loop.  The
\* frame keeps the session the call found.
load_begin(filepath) ==
    /\ UserEvent /\ CanNest
    /\ events' = events + 1
    /\ current_file_path' = filepath
    /\ stack' = Append(stack, Frame("load_and_preview_file", "log_loading", 0, NoModel, session))
    /\ UNCHANGED <<config, log_text, current_file_content, generated_markdown, buttons, chat,
                   after_queue, threads, world, calls, dialogs>>

\* lines 702-712: extraction, preview, chat status, then log()
load_extract(raw) ==
    /\ Running("load_and_preview_file", "log_loading")
    /\ LET text == extract_file_content(raw) IN
       IF text = None
       THEN /\ stack' = Goto("log_failed")
            /\ UNCHANGED <<current_file_content, conversation_history>>
       ELSE /\ current_file_content' = text
            /\ conversation_history' =
                   add_to_chat_history(conversation_history, SYSTEM,
                                       FileSummary(current_file_path, text), 0)
            /\ stack' = Goto("log_loaded")
    /\ UNCHANGED <<config, log_text, current_file_path, generated_markdown, buttons, question_var,
                   after_queue, threads, world, events, calls, dialogs>>

\* lines 713-715
load_finish ==
    /\ Running("load_and_preview_file", "log_loaded")
    /\ generate_btn' = NORMAL
    /\ save_btn' = DISABLED
    /\ ask_btn' = NORMAL
    /\ stack' = Pop
    /\ UNCHANGED <<config, log_text, session, chat, after_queue, threads, world, events, calls,
                   dialogs>>

\* lines 716-718
load_failed ==
    /\ Running("load_and_preview_file", "log_failed")
    /\ dialogs' = Append(dialogs, Dialog("load_failed", 0))
    /\ stack' = Pop
    /\ UNCHANGED <<config, log_text, session, buttons, chat, after_queue, threads, world, events,
                   calls>>

----------------------------------------------------------------------------
(* The provider: what one request may come to *)

\* A request ends with a text, with no text (content is None, or the JSON
\* lacks the field), or with an exception.  The DeepSeek SDK raises its own
\* exceptions, never those of requests.
Failures(ai_model) ==
    IF ai_model = "DeepSeek" THEN {"error"} ELSE {"timeout", "request", "error"}

\* the checks without those of lines 795-801
accepts_any_model(ai_model) == current_file_content # <<>>

\* generate_content: the checks of lines 785-801
generate_accepts(ai_model) ==
    /\ current_file_content # <<>>
    /\ CredentialPresent(ai_model)

\* line 895 without the strip()
artifact_untrimmed(ai_output) == ai_output

\* the artifact stored for a provider answer (line 895)
artifact_of(ai_output) == strip(ai_output)

NextCall == Len(calls) + 1

PromptBudget == 500         \* generate_content: current_file_content[:500]

\* the prompt of lines 810-820 and 822-853: both templates end with the excerpt,
\* the three dots and the closing line
generate_prompt(content) ==
    <<"outline_of">> \o Prefix(content, PromptBudget) \o <<"...">> \o <<"begin">>

----------------------------------------------------------------------------
(* generate_content *)

\* The button is pressed while it is enabled; ai_model is what ai_model_var
\* holds.  Lines 785-801 reject the call; otherwise line 855 logs.  The frame
\* keeps the artifact the call found.
generate_content(ai_model) ==
    /\ UserEvent /\ CanNest
    /\ generate_btn = NORMAL
    /\ events' = events + 1
    /\ IF generate_accepts(ai_model)
       THEN /\ calls' = Append(calls, Call("generate", ai_model,
                                           generate_prompt(current_file_content)))
            /\ stack' = Append(stack, Frame("generate_content", "log_calling", NextCall,
                                            ai_model, generated_markdown))
            /\ UNCHANGED dialogs
       ELSE /\ dialogs' = Append(dialogs,
                   Dialog(IF current_file_content = <<>> THEN "no_document"
                          ELSE "no_credential", 0))
            /\ UNCHANGED <<calls, stack>>
    /\ UNCHANGED <<config, log_text, session, buttons, chat, after_queue, threads, world>>

\* line 856, then the root.update() of line 857
generate_disable ==
    /\ Running("generate_content", "log_calling")
    /\ generate_btn' = DISABLED
    /\ stack' = Goto("update")
    /\ UNCHANGED <<config, log_text, session, save_btn, ask_btn, chat, after_queue, threads, world,
                   events, calls, dialogs>>

\* lines 859-898: the request and a text in answer; the log() of line 898
generate_success(ai_output) ==
    /\ Running("generate_content", "update")
    /\ calls' = [calls EXCEPT ![Top.call].requests = @ + 1, ![Top.call].status = "ok"]
    /\ generated_markdown' = artifact_of(ai_output)
    /\ stack' = Goto("log_success")
    /\ UNCHANGED <<config, log_text, current_file_content, current_file_path, buttons, chat,
                   after_queue, threads, world, events, dialogs>>

\* lines 859-892 and 900-910: the request fails; the log() of the except clause
generate_failure(kind) ==
    /\ Running("generate_content", "update")
    /\ kind \in Failures(Top.ai_model)
    /\ calls' = [calls EXCEPT ![Top.call].requests = @ + 1, ![Top.call].status = kind]
    /\ stack' = Goto("log_failure")
    /\ UNCHANGED <<config, log_text, session, buttons, chat, after_queue, threads, world, events,
                   dialogs>>

\* lines 899 and 912-915
generate_finish_success ==
    /\ Running("generate_content", "log_success")
    /\ save_btn' = NORMAL
    /\ generate_btn' = NORMAL
    /\ stack' = Pop
    /\ UNCHANGED <<config, log_text, session, ask_btn, chat, after_queue, threads, world, events,
                   calls, dialogs>>

\* the except clause without the finally clause of lines 912-915
finish_failure_without_finally ==
    /\ Running("generate_content", "log_failure")
    /\ dialogs' = Append(dialogs, Dialog("generate_failed", Top.call))
    /\ stack' = Pop
    /\ UNCHANGED <<config, log_text, session, buttons, chat, after_queue, threads, world,
                   events, calls>>

\* the message box of the except clause, then lines 912-915
generate_finish_failure ==
    /\ Running("generate_content", "log_failure")
    /\ dialogs' = Append(dialogs, Dialog("generate_failed", Top.call))
    /\ generate_btn' = NORMAL
    /\ stack' = Pop
    /\ UNCHANGED <<config, log_text, session, save_btn, ask_btn, chat, after_queue, threads, world,
                   events, calls>>

----------------------------------------------------------------------------
(* ask_question, process_question, display_answer *)

ChatBudget == 1500          \* process_question: current_file_content[:1500]

\* the prompt with the whole document in it
chat_prompt_whole(content, question) ==
    <<"answer_from">> \o content \o <<"question">> \o question

\* the prompt of lines 950-954
chat_prompt(content, question) ==
    <<"answer_from">> \o Prefix(content, ChatBudget)
        \o (IF Len(content) > ChatBudget THEN <<"...">> ELSE <<>>)
        \o <<"question">> \o question

\* the error_msg of lines 993, 996 and 999
error_msg(kind, ai_model) ==
    CASE kind = "timeout" -> <<ai_model>> \o MarkTimeout
      [] kind = "request" -> <<ai_model>> \o MarkRequest \o <<"detail">>
      [] OTHER -> <<ai_model>> \o MarkFailed \o <<"detail">>

\* a callback posted with root.after(0, ...); who is the model or the site
Callback(f, text, who, call) ==
    [f |-> f, text |-> text, who |-> who, call |-> call]

Thread(kind, pc, call, ai_model, question, arg) ==
    [kind |-> kind, pc |-> pc, call |-> call, ai_model |-> ai_model,
     question |-> question, arg |-> arg]

\* the checks without that of lines 920-922
accepts_blank(typed, ai_model) ==
    /\ current_file_content # <<>>
    /\ CredentialPresent(ai_model)

\* ask_question: the checks of lines 919-934
ask_accepts(typed, ai_model) ==
    /\ strip(typed) # <<>>
    /\ current_file_content # <<>>
    /\ CredentialPresent(ai_model)

\* ask_question with question_var holding typed and chat_ai_model_var ai_model.
\* The call keeps the document it was accepted with.
ask_question(typed, ai_model) ==
    /\ UserEvent
    /\ events' = events + 1
    /\ IF ask_accepts(typed, ai_model)
       THEN /\ conversation_history' =
                   add_to_chat_history(conversation_history, YOU, strip(typed), NextCall)
            /\ question_var' = <<>>
            /\ ask_btn' = DISABLED
            /\ calls' = Append(calls, Call("ask", ai_model, current_file_content))
            /\ threads' = threads \cup
                   {Thread("process_question", "start", NextCall, ai_model,
                           strip(typed), <<>>)}
            /\ UNCHANGED dialogs
       ELSE /\ question_var' = typed
            /\ dialogs' = Append(dialogs,
                   Dialog(IF strip(typed) = <<>> THEN "no_question"
                          ELSE IF current_file_content = <<>> THEN "no_document"
                          ELSE "no_credential", 0))
            /\ UNCHANGED <<conversation_history, ask_btn, calls, threads>>
    /\ UNCHANGED <<config, log_text, session, generate_btn, save_btn, stack, after_queue, world>>

\* the ask button (line 603): pressed only while it is enabled
ask_button(typed, ai_model) ==
    /\ ask_btn = NORMAL
    /\ ask_question(typed, ai_model)

\* <Return> in the question entry (line 602)
return_key(typed, ai_model) == ask_question(typed, ai_model)

\* an example button (lines 616 and 1026-1029)
use_example_question(i, ai_model) == ask_question(<<example_questions[i]>>, ai_model)

\* process_question, lines 950-985: the prompt is built and the request sent
process_request(t) ==
    /\ t \in threads /\ t.kind = "process_question" /\ t.pc = "start"
    /\ calls' = [calls EXCEPT ![t.call].requests = @ + 1]
    /\ threads' = (threads \ {t}) \cup
           {[t EXCEPT !.pc = "waiting",
                      !.arg = chat_prompt(current_file_content, t.question)]}
    /\ UNCHANGED <<config, log_text, session, buttons, chat, stack, after_queue, world, events,
                   dialogs>>

\* the thread storing the answer itself
process_answer_stores(t, text) ==
    /\ t \in threads /\ t.kind = "process_question" /\ t.pc = "waiting"
    /\ calls' = [calls EXCEPT ![t.call].status = "ok"]
    /\ generated_markdown' = strip(text)
    /\ after_queue' = Append(after_queue,
           Callback("display_answer", strip(text), t.ai_model, t.call))
    /\ threads' = (threads \ {t}) \cup {[t EXCEPT !.pc = "finally"]}
    /\ UNCHANGED <<config, log_text, current_file_content, current_file_path, buttons, chat,
                   stack, world, events, dialogs>>

\* lines 968/988 and 991: a text in answer
process_answer(t, text) ==
    /\ t \in threads /\ t.kind = "process_question" /\ t.pc = "waiting"
    /\ calls' = [calls EXCEPT ![t.call].status = "ok"]
    /\ after_queue' = Append(after_queue,
           Callback("display_answer", strip(text), t.ai_model, t.call))
    /\ threads' = (threads \ {t}) \cup {[t EXCEPT !.pc = "finally"]}
    /\ UNCHANGED <<config, log_text, session, buttons, chat, stack, world, events, dialogs>>

\* a failed request sent again instead of reported
process_failure_retries(t, kind) ==
    /\ t \in threads /\ t.kind = "process_question" /\ t.pc = "waiting"
    /\ kind \in Failures(t.ai_model)
    /\ threads' = (threads \ {t}) \cup {[t EXCEPT !.pc = "start"]}
    /\ UNCHANGED <<config, log_text, session, buttons, chat, stack, after_queue, world, events,
                   calls, dialogs>>

\* lines 992-1000: the request fails
process_failure(t, kind) ==
    /\ t \in threads /\ t.kind = "process_question" /\ t.pc = "waiting"
    /\ kind \in Failures(t.ai_model)
    /\ calls' = [calls EXCEPT ![t.call].status = kind]
    /\ after_queue' = Append(after_queue,
           Callback("display_answer", error_msg(kind, t.ai_model), t.ai_model, t.call))
    /\ threads' = (threads \ {t}) \cup {[t EXCEPT !.pc = "finally"]}
    /\ UNCHANGED <<config, log_text, session, buttons, chat, stack, world, events, dialogs>>

\* lines 1001-1003
process_finally(t) ==
    /\ t \in threads /\ t.kind = "process_question" /\ t.pc = "finally"
    /\ after_queue' = Append(after_queue, Callback("enable_ask", <<>>, NoModel, t.call))
    /\ threads' = threads \ {t}
    /\ UNCHANGED <<config, log_text, session, buttons, chat, stack, world, events, calls, dialogs>>

\* line 1007: the answer is taken for an error message
looks_like_error(answer) ==
    \/ Contains(MarkTimeout, answer)
    \/ Contains(MarkRequest, answer)
    \/ Contains(MarkFailed, answer)

\* display_answer, run by the event loop
display_answer ==
    /\ after_queue # <<>> /\ Head(after_queue).f = "display_answer"
    /\ LET cb == Head(after_queue)
           sender == IF looks_like_error(cb.text) THEN SYSTEM ELSE Assistant(cb.who)
       IN /\ conversation_history' =
                 add_to_chat_history(conversation_history, sender, cb.text, cb.call)
          /\ calls' = Did(calls, cb.call, "display_answer", sender)
    /\ after_queue' = Tail(after_queue)
    /\ UNCHANGED <<config, log_text, session, buttons, question_var, stack, threads, world, events,
                   dialogs>>

\* the lambda of line 1003, run by the event loop
enable_ask ==
    /\ after_queue # <<>> /\ Head(after_queue).f = "enable_ask"
    /\ ask_btn' = NORMAL
    /\ after_queue' = Tail(after_queue)
    /\ UNCHANGED <<config, log_text, session, generate_btn, save_btn, chat, stack, threads, world,
                   events, calls, dialogs>>

\* clear_conversation
clear_conversation ==
    /\ UserEvent
    /\ events' = events + 1
    /\ conversation_history' = add_to_chat_history(<<>>, SYSTEM, <<"cleared">>, 0)
    /\ UNCHANGED <<config, log_text, session, buttons, question_var, stack, after_queue, threads,
                   world, calls, dialogs>>

\* reload_file_for_chat
reload_file_for_chat(raw) ==
    /\ UserEvent
    /\ events' = events + 1
    /\ LET text == extract_file_content(raw) IN
       IF current_file_path = ""
       THEN /\ conversation_history' =
                   add_to_chat_history(conversation_history, SYSTEM, <<"no_file">>, 0)
            /\ UNCHANGED current_file_content
       ELSE IF text = None
       THEN /\ conversation_history' =
                   add_to_chat_history(conversation_history, SYSTEM, <<"reload_failed">>, 0)
            /\ UNCHANGED current_file_content
       ELSE /\ current_file_content' = text
            /\ conversation_history' =
                   add_to_chat_history(
                       add_to_chat_history(conversation_history, SYSTEM,
                                           FileSummary(current_file_path, text), 0),
                       SYSTEM, <<"reloaded">>, 0)
    /\ UNCHANGED <<config, log_text, current_file_path, generated_markdown, buttons, question_var,
                   stack, after_queue, threads, world, calls, dialogs>>

----------------------------------------------------------------------------
(* save_as_markdown *)

\* the save and publish calls accepted so far
Writes ==
    Cardinality({c \in DOMAIN calls :
                    calls[c].op \in {"save_as_markdown", "open_ppt_generator",
                                     "open_mindmap_generator"}})

SaveChoices == {"", "out.md"}      \* what asksaveasfilename returns; "" on cancel
SaveOutcomes == {"ok", "raises"}   \* open(filepath, 'w') and f.write

\* lines 1039-1061 and 1068: the save button is pressed while it is enabled
save_as_markdown(filepath, outcome) ==
    /\ CanNest
    /\ save_btn = NORMAL
    /\ IF generated_markdown = <<>>
       THEN /\ UserEvent
            /\ events' = events + 1
            /\ dialogs' = Append(dialogs, Dialog("nothing_to_save", 0))
            /\ UNCHANGED <<calls, stack>>
       ELSE IF filepath = ""
       THEN /\ UserEvent
            /\ events' = events + 1
            /\ UNCHANGED <<calls, stack, dialogs>>
       ELSE LET call == Call("save_as_markdown", NoModel, <<filepath>>) IN
            /\ Writes < MaxWrites
            /\ UNCHANGED events
            /\ calls' = Append(calls,
                   IF outcome = "ok"
                   THEN [call EXCEPT !.steps = <<Effect("write_file", generated_markdown)>>]
                   ELSE call)
            /\ stack' = Append(stack,
                   Frame("save_as_markdown",
                         IF outcome = "ok" THEN "log_saved" ELSE "log_error",
                         NextCall, NoModel, <<filepath>>))
            /\ UNCHANGED dialogs
    /\ UNCHANGED <<config, log_text, session, buttons, chat, after_queue, threads, world>>

\* lines 1062-1066 and 1069: the message box after the log()
save_finish ==
    /\ stack # <<>> /\ Top.h = "save_as_markdown"
    /\ stack' = Pop
    /\ dialogs' = Append(dialogs,
           Dialog(IF Top.pc = "log_saved" THEN "saved" ELSE "save_failed", Top.call))
    /\ calls' = Ended(calls, Top.call,
                      IF Top.pc = "log_saved" THEN "saved" ELSE "save_failed")
    /\ UNCHANGED <<config, log_text, session, buttons, chat, after_queue, threads, world, events>>

----------------------------------------------------------------------------
(* open_ppt_generator, open_mindmap_generator and the fallback *)

Site(kind) == IF kind = "open_ppt_generator" THEN KIMI_SLIDES ELSE XMIND
Uploader(kind) ==
    IF kind = "open_ppt_generator" THEN "upload_to_kimi_slides" ELSE "upload_to_xmind"
SiteOf(uploader) == IF uploader = "upload_to_kimi_slides" THEN KIMI_SLIDES ELSE XMIND

\* lines 260-261 and 433-434: the name of the temporary file
temp_file_name(kind, now) ==
    IF kind = "open_ppt_generator" THEN <<"ppt_outline">> ELSE <<"mindmap_outline", now>>

WriteOutcomes == {"ok", "open_fails", "write_fails"}

\* the files with nothing written
write_nothing(files, name, text, outcome) == files

\* open(temp_file, 'w') and f.write(text): the files afterwards
write_temp_file(files, name, text, outcome) ==
    CASE outcome = "ok" -> (name :> text) @@ files
      [] outcome = "write_fails" -> (name :> <<>>) @@ files
      [] OTHER -> files


\* lines 254-264 and 427-437; elapsed is the time since the clock was last read
open_generator(kind, elapsed, outcome) ==
    /\ CanNest
    /\ IF generated_markdown = <<>>
       THEN /\ UserEvent
            /\ events' = events + 1
            /\ dialogs' = Append(dialogs, Dialog("no_artifact", 0))
            /\ UNCHANGED <<calls, stack, temp_files, clock>>
       ELSE LET now == IF kind = "open_ppt_generator" THEN clock ELSE clock + elapsed
                name == temp_file_name(kind, now)
                call == Call(kind, NoModel, name)
            IN /\ Writes < MaxWrites
               /\ UNCHANGED events
               /\ clock' = now
               /\ temp_files' = write_temp_file(temp_files, name, generated_markdown, outcome)
               /\ calls' = Append(calls,
                      IF outcome = "ok"
                      THEN [call EXCEPT !.steps = <<Effect("write_temp", generated_markdown)>>]
                      ELSE call)
               /\ stack' = Append(stack,
                      Frame(kind, IF outcome = "ok" THEN "log_saved" ELSE "log_error",
                            NextCall, NoModel, name))
               /\ UNCHANGED dialogs
    /\ UNCHANGED <<config, log_text, session, buttons, chat, after_queue, threads, clipboard>>

open_ppt_generator(outcome) == open_generator("open_ppt_generator", 0, outcome)

open_mindmap_generator(elapsed, outcome) ==
    open_generator("open_mindmap_generator", elapsed, outcome)

FallbackOutcomes == {"ok", "raises"}

\* fallback_ppt_generation / fallback_mindmap_generation: the clipboard, the
\* steps taken, the message box posted behind queue, and the outcome of the call.
\* With pyperclip the file is read back and copied; open(), read() or
\* pyperclip.copy() may raise, and the except clause then only opens the site.
fallback_generation(site, file, call, queue, outcome) ==
    IF pyperclip_available
    THEN IF file \in DOMAIN temp_files /\ outcome = "ok"
         THEN /\ clipboard' = temp_files[file]
              /\ calls' = Ended(Did(Did(calls, call, "clipboard_copy", temp_files[file]),
                                    call, "open_site", <<site>>),
                                call, "FallbackClipboard")
              /\ after_queue' = Append(queue,
                     Callback("messagebox", <<"fallback_clipboard">>, NoModel, call))
         ELSE /\ calls' = Ended(Did(calls, call, "open_site", <<site>>), call, "FallbackFailed")
              /\ after_queue' = queue
              /\ UNCHANGED clipboard
    ELSE /\ calls' = Ended(Did(calls, call, "open_site", <<site>>), call, "FallbackManualOpen")
         /\ after_queue' = Append(queue,
                Callback("messagebox", <<"manual_open">>, NoModel, call))
         /\ UNCHANGED clipboard

\* lines 266-276 and 439-449, after the log() of line 264 / 437
open_generator_continue(outcome) ==
    /\ outcome \in FallbackOutcomes
    /\ stack # <<>> /\ Top.h \in {"open_ppt_generator", "open_mindmap_generator"}
    /\ Top.pc = "log_saved"
    /\ stack' = Pop
    /\ IF ~selenium_available
       THEN /\ fallback_generation(Site(Top.h), Top.arg, Top.call, after_queue, outcome)
            /\ UNCHANGED threads
       ELSE /\ threads' = threads \cup
                   {Thread(Uploader(Top.h), "start", Top.call, NoModel, <<>>, Top.arg)}
            /\ UNCHANGED <<clipboard, after_queue, calls>>
    /\ UNCHANGED <<config, log_text, session, buttons, chat, temp_files, clock, events, dialogs>>

\* lines 278-280 and 451-453
open_generator_failed ==
    /\ stack # <<>> /\ Top.h \in {"open_ppt_generator", "open_mindmap_generator"}
    /\ Top.pc = "log_error"
    /\ stack' = Pop
    /\ dialogs' = Append(dialogs, Dialog("open_failed", Top.call))
    /\ calls' = Ended(calls, Top.call, "PersistFailed")
    /\ UNCHANGED <<config, log_text, session, buttons, chat, after_queue, threads, world, events>>

\* the lambda of lines 401, 404, 539 and 544, run by the event loop
run_fallback(outcome) ==
    /\ outcome \in FallbackOutcomes
    /\ after_queue # <<>> /\ Head(after_queue).f = "fallback"
    /\ fallback_generation(Head(after_queue).who, Head(after_queue).text,
                           Head(after_queue).call, Tail(after_queue), outcome)
    /\ UNCHANGED <<config, log_text, session, buttons, chat, stack, threads, temp_files, clock,
                   events, dialogs>>

\* a messagebox posted with root.after(0, ...), run by the event loop
run_messagebox ==
    /\ after_queue # <<>> /\ Head(after_queue).f = "messagebox"
    /\ dialogs' = Append(dialogs, Dialog(Head(after_queue).text[1], Head(after_queue).call))
    /\ after_queue' = Tail(after_queue)
    /\ UNCHANGED <<config, log_text, session, buttons, chat, stack, threads, world, events, calls>>

----------------------------------------------------------------------------
(* upload_to_kimi_slides and upload_to_xmind, run on their own threads *)

Uploading(t, pc) ==
    /\ t \in threads
    /\ t.kind \in {"upload_to_kimi_slides", "upload_to_xmind"}
    /\ t.pc = pc

PostFallback(t) ==
    Append(after_queue, Callback("fallback", t.arg, SiteOf(t.kind), t.call))

PostMessagebox(t, kind) ==
    Append(after_queue, Callback("messagebox", <<kind>>, NoModel, t.call))

Move(t, pc) == (threads \ {t}) \cup {[t EXCEPT !.pc = pc]}

\* self.log(...) called by the thread itself (lines 311, 317, 324, ..., 543):
\* log() inserts into self.log_text and then calls self.root.update()
WorkerLog(t, message) ==
    log_text \cup {[thread |-> t.kind, call |-> t.call, message |-> message]}

\* lines 302-309 and 475-482: chromedriver.exe is looked for
upload_driver(t, found) ==
    /\ Uploading(t, "start")
    /\ IF found
       THEN /\ threads' = Move(t, "launch")
            /\ UNCHANGED after_queue
       ELSE /\ threads' = threads \ {t}
            /\ after_queue' = PostFallback(t)
    /\ log_text' = WorkerLog(t, "upload_driver")
    /\ UNCHANGED <<config, session, buttons, chat, stack, world, events, calls, dialogs>>

LaunchOutcomes == {"ok", "chrome_fails", "get_fails"}

\* lines 314-316 and 487-489: the browser is started and the page requested
upload_launch(t, outcome) ==
    /\ Uploading(t, "launch")
    /\ outcome \in LaunchOutcomes
    /\ calls' = IF outcome = "chrome_fails" THEN calls
                ELSE Did(calls, t.call, "launch_browser", <<SiteOf(t.kind)>>)
    /\ IF outcome = "ok"
       THEN /\ threads' = Move(t, "page")
            /\ UNCHANGED after_queue
       ELSE /\ threads' = threads \ {t}
            /\ after_queue' = PostFallback(t)
    /\ log_text' = WorkerLog(t, "upload_launch")
    /\ UNCHANGED <<config, session, buttons, chat, stack, world, events, dialogs>>

KimiPageOutcomes == {"timeout", "no_element", "click_raises", "clicked"}

\* lines 322-357: the page is awaited, the upload element found and clicked
kimi_page(t, outcome) ==
    /\ Uploading(t, "page") /\ t.kind = "upload_to_kimi_slides"
    /\ outcome \in KimiPageOutcomes
    /\ CASE outcome = "clicked" ->
              /\ threads' = Move(t, "input")
              /\ calls' = Did(calls, t.call, "click_upload", <<>>)
              /\ UNCHANGED after_queue
         [] outcome = "click_raises" ->
              /\ threads' = threads \ {t}
              /\ after_queue' = PostFallback(t)
              /\ UNCHANGED calls
         [] OTHER ->
              /\ threads' = threads \ {t}
              /\ after_queue' = PostMessagebox(t, "manual_upload")
              /\ calls' = Ended(calls, t.call, "ManualUpload")
    /\ log_text' = WorkerLog(t, "kimi_page")
    /\ UNCHANGED <<config, session, buttons, chat, stack, world, events, dialogs>>

KimiInputOutcomes == {"no_input", "sent", "raises"}

\* lines 359-365 and 390-392: the file input is found and given the path
kimi_input(t, outcome) ==
    /\ Uploading(t, "input") /\ t.kind = "upload_to_kimi_slides"
    /\ outcome \in KimiInputOutcomes
    /\ CASE outcome = "sent" ->
              /\ threads' = Move(t, "confirm")
              /\ calls' = Did(calls, t.call, "send_file",
                              IF t.arg \in DOMAIN temp_files THEN temp_files[t.arg] ELSE None)
              /\ UNCHANGED after_queue
         [] outcome = "raises" ->
              /\ threads' = threads \ {t}
              /\ after_queue' = PostFallback(t)
              /\ UNCHANGED calls
         [] OTHER ->
              /\ threads' = threads \ {t}
              /\ after_queue' = PostMessagebox(t, "manual_upload")
              /\ calls' = Ended(calls, t.call, "ManualUpload")
    /\ log_text' = IF outcome = "no_input" THEN log_text ELSE WorkerLog(t, "kimi_input")
    /\ UNCHANGED <<config, session, buttons, chat, stack, world, events, dialogs>>

KimiConfirmOutcomes == {"timeout", "not_displayed", "started", "unknown", "raises"}

\* lines 367-389: the generate button is awaited and clicked, the page scanned
kimi_confirm(t, outcome) ==
    /\ Uploading(t, "confirm") /\ t.kind = "upload_to_kimi_slides"
    /\ outcome \in KimiConfirmOutcomes
    /\ threads' = threads \ {t}
    /\ after_queue' = CASE outcome = "started" -> PostMessagebox(t, "generation_started")
                        [] outcome = "raises" -> PostFallback(t)
                        [] OTHER -> after_queue
    /\ calls' = CASE outcome = "started" ->
                       Ended(Did(calls, t.call, "click_generate", <<>>), t.call,
                             "AutomatedSuccess")
                  [] outcome = "unknown" ->
                       Ended(Did(calls, t.call, "click_generate", <<>>), t.call,
                             "AutomatedUncertain")
                  [] outcome = "raises" -> calls
                  [] OTHER -> Ended(calls, t.call, "NoConfirm")
    /\ log_text' = WorkerLog(t, "kimi_confirm")
    /\ UNCHANGED <<config, session, buttons, chat, stack, world, events, dialogs>>

\* lines 501-516: the upload button of the XMind page
xmind_button(t, clicked) ==
    /\ Uploading(t, "page") /\ t.kind = "upload_to_xmind"
    /\ IF clicked
       THEN /\ threads' = Move(t, "input")
            /\ calls' = Did(calls, t.call, "click_upload", <<>>)
            /\ UNCHANGED after_queue
       ELSE /\ threads' = threads \ {t}
            /\ after_queue' = PostMessagebox(t, "no_upload_button")
            /\ calls' = Ended(calls, t.call, "ManualUpload")
    /\ log_text' = WorkerLog(t, "xmind_button")
    /\ UNCHANGED <<config, session, buttons, chat, stack, world, events, dialogs>>

\* lines 518-535: the file input area of the XMind page; nothing follows it
xmind_input(t, clicked) ==
    /\ Uploading(t, "input") /\ t.kind = "upload_to_xmind"
    /\ threads' = threads \ {t}
    /\ IF clicked
       THEN /\ calls' = Ended(Did(calls, t.call, "click_input", <<>>), t.call,
                              "InputActivated")
            /\ UNCHANGED after_queue
       ELSE /\ after_queue' = PostMessagebox(t, "no_input_area")
            /\ calls' = Ended(calls, t.call, "ManualUpload")
    /\ log_text' = WorkerLog(t, "xmind_input")
    /\ UNCHANGED <<config, session, buttons, chat, stack, world, events, dialogs>>

----------------------------------------------------------------------------
(* The program *)

Load(paths, contents) ==
    \/ \E filepath \in paths : load_begin(filepath)
    \/ \E raw \in contents : load_extract(raw)
    \/ load_finish
    \/ load_failed

LoadFrom(paths) == Load(paths, FileContents)

Generate(outputs) ==
    \/ \E ai_model \in Models : generate_content(ai_model)
    \/ generate_disable
    \/ \E ai_output \in outputs : generate_success(ai_output)
    \/ \E kind \in {"timeout", "request", "error"} : generate_failure(kind)
    \/ generate_finish_success
    \/ generate_finish_failure

GenerateActions == Generate(Texts)

ChatActions ==
    \/ \E typed \in Texts, ai_model \in Models : ask_button(typed, ai_model)
    \/ \E typed \in Texts, ai_model \in Models : return_key(typed, ai_model)
    \/ \E i \in 1..MaxExample, ai_model \in Models : use_example_question(i, ai_model)
    \/ \E t \in threads : process_request(t)
    \/ \E t \in threads, text \in ChatAnswers : process_answer(t, text)
    \/ \E t \in threads, kind \in {"timeout", "request", "error"} : process_failure(t, kind)
    \/ \E t \in threads : process_finally(t)
    \/ display_answer
    \/ enable_ask
    \/ clear_conversation
    \/ \E raw \in FileContents : reload_file_for_chat(raw)

SaveActions ==
    \/ \E filepath \in SaveChoices, outcome \in SaveOutcomes :
           save_as_markdown(filepath, outcome)
    \/ save_finish

\* the publish handlers on the control thread
PublishActions ==
    \/ \E outcome \in WriteOutcomes : open_ppt_generator(outcome)
    \/ \E elapsed \in {0, 1}, outcome \in WriteOutcomes : open_mindmap_generator(elapsed, outcome)
    \/ \E outcome \in FallbackOutcomes : open_generator_continue(outcome)
    \/ open_generator_failed
    \/ run_messagebox

\* the upload threads and the fallback they post
UploadActions ==
    \/ \E outcome \in FallbackOutcomes : run_fallback(outcome)
    \/ \E t \in threads, found \in BOOLEAN : upload_driver(t, found)
    \/ \E t \in threads, outcome \in LaunchOutcomes : upload_launch(t, outcome)
    \/ \E t \in threads, outcome \in KimiPageOutcomes : kimi_page(t, outcome)
    \/ \E t \in threads, outcome \in KimiInputOutcomes : kimi_input(t, outcome)
    \/ \E t \in threads, outcome \in KimiConfirmOutcomes : kimi_confirm(t, outcome)
    \/ \E t \in threads, clicked \in BOOLEAN : xmind_button(t, clicked)
    \/ \E t \in threads, clicked \in BOOLEAN : xmind_input(t, clicked)

Next ==
    \/ LoadFrom(Paths)
    \/ GenerateActions
    \/ ChatActions
    \/ SaveActions
    \/ PublishActions
    \/ UploadActions

Spec == Init /\ [][Next]_vars

\* The document, the generation and the chat, without the publish handlers
\* (which write none of the session's state).
InitSession == Init /\ ~selenium_available /\ ~pyperclip_available
NextSession == LoadFrom({"a.txt"}) \/ GenerateActions \/ ChatActions
SpecSession == InitSession /\ [][NextSession]_vars

\* The document and the generation alone.
NextGenerate == LoadFrom(Paths) \/ GenerateActions
SpecGenerate == InitSession /\ [][NextGenerate]_vars

\* The document, the generation, the saving and the publish handlers where
\* selenium is missing: the fallback runs inside the handler and no thread is
\* started.
InitFallback == Init /\ ~selenium_available /\ deepseek_client /\ ~kimi_key
NextFallback == LoadFrom({"a.txt"}) \/ GenerateActions \/ SaveActions \/ PublishActions
SpecFallback == InitFallback /\ [][NextFallback]_vars

\* The publish calls with and without selenium, for one document and one
\* non-empty artifact.
InitPublish == Init /\ deepseek_client /\ ~kimi_key
NextPublish ==
    \/ Load({"a.txt"}, {<<"x">>, Unreadable})
    \/ Generate({<<"x">>, <<" ">>})
    \/ PublishActions
    \/ UploadActions
SpecPublish == InitPublish /\ [][NextPublish]_vars

\* The prompts of the generation and of the chat for documents about as long
\* as the two budgets.  The only question is the first example, which shares no
\* character with the documents.
DocumentLengths == {1, PromptBudget, PromptBudget + 1, ChatBudget, ChatBudget + 1}
Document(n) == [i \in 1..n |-> IF i = n THEN "z" ELSE "x"]
Documents == {Document(n) : n \in DocumentLengths}
InitPrompt == InitSession /\ deepseek_client /\ kimi_key
NextPrompt ==
    \/ Load({"a.txt"}, Documents \cup {Unreadable})
    \/ Generate({<<"x">>})
    \/ \E ai_model \in Models : use_example_question(1, ai_model)
    \/ \E t \in threads : process_request(t)
    \/ \E t \in threads : process_answer(t, <<"x">>)
    \/ \E t \in threads, kind \in {"timeout", "request", "error"} : process_failure(t, kind)
    \/ \E t \in threads : process_finally(t)
    \/ display_answer
    \/ enable_ask
SpecPrompt == InitPrompt /\ [][NextPrompt]_vars

\* One document, one answer and one question, with the handlers, the threads
\* and the event loop going on whenever they can: a handler returns, a request
\* ends (requests.post has timeout=60), a posted callback is run.
Progress ==
    \/ \E raw \in {<<"x">>, Unreadable} : load_extract(raw)
    \/ load_finish
    \/ load_failed
    \/ generate_disable
    \/ generate_success(<<"x">>)
    \/ \E kind \in {"timeout", "request", "error"} : generate_failure(kind)
    \/ generate_finish_success
    \/ generate_finish_failure
    \/ \E t \in threads : process_request(t)
    \/ \E t \in threads : process_answer(t, <<"x">>)
    \/ \E t \in threads, kind \in {"timeout", "request", "error"} : process_failure(t, kind)
    \/ \E t \in threads : process_finally(t)
    \/ display_answer
    \/ enable_ask
NextButtons ==
    \/ load_begin("a.txt")
    \/ \E ai_model \in Models : generate_content(ai_model)
    \/ \E ai_model \in Models : ask_button(<<"x">>, ai_model)
    \/ \E ai_model \in Models : return_key(<<"x">>, ai_model)
    \/ Progress
SpecButtons == InitPrompt /\ [][NextButtons]_vars /\ WF_vars(Progress)

\* Loading files that hold bytes outside UTF-8.
NextDecode == Load(Paths, ByteFiles \cup {Unreadable})
SpecDecode == InitPrompt /\ [][NextDecode]_vars

\* Two documents and a provider whose answer is the excerpt of the prompt it
\* was sent, so that an artifact shows which document it was generated from;
\* selenium is missing.
Excerpt(prompt) == SubSeq(prompt, 2, Len(prompt) - 2)
Echo ==
    IF stack # <<>> /\ Top.h = "generate_content" THEN Excerpt(calls[Top.call].arg)
    ELSE <<>>
NextEcho ==
    \/ Load(Paths, {<<"x">>, <<"x", "x">>, Unreadable})
    \/ \E ai_model \in Models : generate_content(ai_model)
    \/ generate_disable
    \/ generate_success(Echo)
    \/ \E kind \in {"timeout", "request", "error"} : generate_failure(kind)
    \/ generate_finish_success
    \/ generate_finish_failure
    \/ SaveActions
    \/ PublishActions
SpecEcho == InitFallback /\ [][NextEcho]_vars

----------------------------------------------------------------------------
(* Properties *)

\* C1: generate_content issues no provider request unless a non-empty document
\* is loaded and the credential of the selected provider is present; a call that
\* fails either check returns at once (no frame is left, no call is recorded) and
\* leaves generated_markdown and the state of the generate button as they were.
C1_NoRequestUnlessAccepted ==
    [][/\ \A c \in DOMAIN calls :
              (calls[c].op = "generate" /\ calls'[c].requests > calls[c].requests)
                  => /\ current_file_content # <<>>
                     /\ CredentialPresent(calls[c].ai_model)
       /\ \A ai_model \in Models :
              (/\ generate_content(ai_model)
               /\ (current_file_content = <<>> \/ ~CredentialPresent(ai_model)))
                  => /\ UNCHANGED <<generated_markdown, generate_btn>>
                     /\ UNCHANGED <<calls, stack>>
      ]_vars

\* a call was refused for its credential while an artifact was held
C1_RefusedWithArtifact ==
    /\ generated_markdown # <<>>
    /\ generate_btn = NORMAL
    /\ dialogs # <<>> /\ dialogs[Len(dialogs)].kind = "no_credential"
    /\ \E c \in DOMAIN calls : calls[c].op = "generate" /\ calls[c].requests = 1

\* C2: for every generation attempt that fails, generated_markdown after the
\* attempt equals its value before the attempt, the failure is reported in a
\* message box once the handler has returned, and the call made one request.
C2_FailedGenerationKeepsArtifact ==
    \A c \in DOMAIN calls :
        (calls[c].op = "generate" /\ calls[c].status \in {"timeout", "request", "error"})
            => /\ calls[c].requests = 1
               /\ \/ \E i \in DOMAIN stack :
                        /\ stack[i].call = c
                        /\ i = Len(stack) => generated_markdown = stack[i].arg
                  \/ \E i \in DOMAIN dialogs : dialogs[i] = Dialog("generate_failed", c)

\* C3: a successful generation stores the answer of the provider with leading
\* and trailing whitespace removed in place of the artifact held before;
\* generated_markdown changes in no other step; and what a save or publish call
\* writes is generated_markdown as it stands, the latest successful answer.
C3_ArtifactIsLatestAnswerTrimmed ==
    [][/\ \A ai_output \in Texts :
              generate_success(ai_output) => generated_markdown' = strip(ai_output)
       /\ generated_markdown' # generated_markdown
              => \E ai_output \in Texts : generate_success(ai_output)
       /\ \A c \in DOMAIN calls' :
              (c \notin DOMAIN calls /\ calls'[c].op # "generate")
                  => /\ generated_markdown' = generated_markdown
                     /\ \A i \in DOMAIN calls'[c].steps :
                            calls'[c].steps[i].text = generated_markdown
      ]_vars

\* two generations have succeeded, and the artifact was saved and published
C3_SecondArtifactWritten ==
    /\ \E c, d \in DOMAIN calls :
           /\ c < d
           /\ calls[c].op = "generate" /\ calls[c].status = "ok"
           /\ calls[d].op = "generate" /\ calls[d].status = "ok"
    /\ \E c \in DOMAIN calls :
           /\ calls[c].op = "save_as_markdown"
           /\ calls[c].steps = <<Effect("write_file", generated_markdown)>>
    /\ \E c \in DOMAIN calls :
           /\ calls[c].op = "open_ppt_generator"
           /\ calls[c].steps # <<>>
           /\ calls[c].steps[1] = Effect("write_temp", generated_markdown)

\* C4: every accepted generate or ask call makes one provider request: never a
\* second one, and exactly one once the call has come to success or failure.
C4_OneRequestPerCall ==
    \A c \in DOMAIN calls :
        calls[c].op \in {"generate", "ask"}
            => /\ calls[c].requests <= 1
               /\ calls[c].status # "running" => calls[c].requests = 1

\* a generation has failed and a question has been answered
C4_FailedAndAnswered ==
    /\ \E c \in DOMAIN calls :
           calls[c].op = "generate" /\ calls[c].status \in {"timeout", "request", "error"}
    /\ \E c \in DOMAIN calls :
           calls[c].op = "ask" /\ calls[c].status = "ok" /\ calls[c].steps # <<>>
    /\ threads = {} /\ after_queue = <<>> /\ stack = <<>>

\* C5: an accepted ask appends the question at the end of the transcript in the
\* step that accepts it, before any request of the call; one response entry, and
\* never a second, is appended for the call, after its request, and it has been
\* appended once the thread and its callback are gone; a rejected ask leaves
\* the transcript alone, records no call and starts no thread.
C5_QuestionThenOneResponse ==
    [][/\ \A c \in DOMAIN calls' :
              (c \notin DOMAIN calls /\ calls'[c].op = "ask")
                  => LET last == conversation_history'[Len(conversation_history')] IN
                     /\ conversation_history' = Append(conversation_history, last)
                     /\ last.sender = YOU /\ last.call = c /\ last.message # <<>>
                     /\ calls'[c].requests = 0
                     /\ \E t \in threads' \ threads :
                            t.call = c /\ t.pc = "start" /\ t.question = last.message
       /\ \A typed \in Texts \cup {<<example_questions[i]>> : i \in 1..MaxExample},
             ai_model \in Models :
              (/\ ask_question(typed, ai_model)
               /\ \/ strip(typed) = <<>>
                  \/ current_file_content = <<>>
                  \/ ~CredentialPresent(ai_model))
                  => UNCHANGED <<conversation_history, calls, threads, after_queue>>
       /\ \A c \in DOMAIN calls :
              calls[c].op = "ask"
                  => LET last == conversation_history'[Len(conversation_history')]
                         responds ==
                             /\ conversation_history' = Append(conversation_history, last)
                             /\ last.call = c /\ last.sender # YOU
                     IN /\ Len(calls'[c].steps) <= 1
                        /\ responds <=> Len(calls'[c].steps) = Len(calls[c].steps) + 1
                        /\ responds => calls[c].requests = 1
                        /\ (/\ \A t \in threads' : t.call # c
                            /\ \A i \in DOMAIN after_queue' :
                                   ~(after_queue'[i].call = c
                                       /\ after_queue'[i].f = "display_answer"))
                               => Len(calls'[c].steps) = 1
      ]_vars

\* a question was answered after a blank question had been refused
C5_AnsweredAfterRefusal ==
    /\ Len(conversation_history) >= 3
    /\ LET n == Len(conversation_history) IN
       /\ conversation_history[n - 1].sender = YOU
       /\ conversation_history[n].sender # YOU
       /\ conversation_history[n].call = conversation_history[n - 1].call
       /\ conversation_history[n].call # 0
    /\ \E i \in DOMAIN dialogs : dialogs[i].kind = "no_question"
    /\ threads = {} /\ after_queue = <<>>

\* C6: the response entry of a question is tagged as a system message exactly
\* when the request of the call failed, and the answer of a successful request,
\* whatever its text, is tagged as a message of the assistant of the provider.
C6_SystemTagIffFailed ==
    \A c \in DOMAIN calls :
        calls[c].op = "ask"
            => \A i \in DOMAIN calls[c].steps :
                   /\ calls[c].steps[i].text = SYSTEM <=> calls[c].status # "ok"
                   /\ calls[c].status = "ok"
                          => calls[c].steps[i].text = Assistant(calls[c].ai_model)

\* C7: at most one question is in flight: of the accepted asks, at most one has
\* not had its response delivered, whichever way each was triggered.
C7_OneQuestionInFlight ==
    Cardinality({c \in DOMAIN calls : calls[c].op = "ask" /\ calls[c].steps = <<>>}) <= 1

\* C8: every step that changes the transcript either appends at its end, the
\* entries held before staying as and where they were, or is the reset, which
\* leaves nothing but its own notice.
C8_TranscriptAppendOnly ==
    [][conversation_history' # conversation_history
          => \/ /\ Len(conversation_history') > Len(conversation_history)
                /\ SubSeq(conversation_history', 1, Len(conversation_history))
                       = conversation_history
             \/ conversation_history' = <<Entry(SYSTEM, <<"cleared">>, 0)>>
      ]_vars

\* the same question asked twice stands in the transcript as two entries
C8_SameQuestionTwice ==
    \E i, j \in DOMAIN conversation_history :
        /\ i < j
        /\ conversation_history[i].sender = YOU
        /\ conversation_history[j].sender = YOU
        /\ conversation_history[i].message = conversation_history[j].message
        /\ conversation_history[i].call # conversation_history[j].call

\* C9: in every publish call with a non-empty artifact the write of the
\* temporary file comes before every automation, clipboard and open-page step
\* (it is the first step of the call and happens once); a call whose write
\* failed takes no step at all and ends reported in a message box; and once a
\* call has taken its first step the temporary file exists, in particular when
\* the call reaches its outcome.
C9_TempFileBeforeEveryStep ==
    \A c \in DOMAIN calls :
        calls[c].op \in {"open_ppt_generator", "open_mindmap_generator"}
            => LET steps == calls[c].steps
                   returned == \A i \in DOMAIN stack : stack[i].call # c
                   reported ==
                       \E i \in DOMAIN dialogs : dialogs[i] = Dialog("open_failed", c)
               IN /\ \A i \in DOMAIN steps : steps[i].step = "write_temp" <=> i = 1
                  /\ steps # <<>> => calls[c].arg \in DOMAIN temp_files
                  /\ calls[c].status \notin {"running", "PersistFailed"} => steps # <<>>
                  /\ calls[c].status = "PersistFailed" <=> (steps = <<>> /\ returned)
                  /\ calls[c].status = "PersistFailed" => reported
                  /\ reported => steps = <<>>

\* one call ended at its failed write, another after every automated step
C9_FailedWriteAndAutomated ==
    /\ \E c \in DOMAIN calls : calls[c].status = "PersistFailed"
    /\ \E c \in DOMAIN calls :
           /\ calls[c].status = "AutomatedSuccess"
           /\ Len(calls[c].steps) = 5
           /\ calls[c].arg \in DOMAIN temp_files

\* C10: without selenium a publish call starts no thread and runs the fallback
\* inside the handler; with pyperclip it ends FallbackClipboard, having copied
\* the text it wrote to the temporary file and then opened the site; without
\* pyperclip it ends FallbackManualOpen, having only opened the site.
C10_FallbackWithoutSelenium ==
    ~selenium_available
        => /\ threads = {}
           /\ \A c \in DOMAIN calls :
                  (/\ calls[c].op \in {"open_ppt_generator", "open_mindmap_generator"}
                   /\ calls[c].steps # <<>>
                   /\ \A i \in DOMAIN stack : stack[i].call # c)
                      => LET written == calls[c].steps[1].text
                             site == Effect("open_site", <<Site(calls[c].op)>>)
                         IN IF pyperclip_available
                            THEN /\ calls[c].status = "FallbackClipboard"
                                 /\ calls[c].steps =
                                        <<Effect("write_temp", written),
                                          Effect("clipboard_copy", written), site>>
                            ELSE /\ calls[c].status = "FallbackManualOpen"
                                 /\ calls[c].steps = <<Effect("write_temp", written), site>>

----------------------------------------------------------------------------
(* The automated path *)

\* C11: with selenium, a publish call that wrote its file and has come to rest
\* (no frame, no thread, no callback left for it) either took every automated
\* step, or ended in the fallback: FallbackClipboard with pyperclip,
\* FallbackManualOpen without it.  No step failure ends anywhere else.
C11_StepFailureEndsInFallback ==
    selenium_available
        => \A c \in DOMAIN calls :
               (/\ calls[c].op \in {"open_ppt_generator", "open_mindmap_generator"}
                /\ calls[c].steps # <<>>
                /\ \A i \in DOMAIN stack : stack[i].call # c
                /\ \A t \in threads : t.call # c
                /\ \A i \in DOMAIN after_queue : after_queue[i].call # c)
                   => \/ calls[c].status \in {"AutomatedSuccess", "AutomatedUncertain",
                                              "InputActivated"}
                      \/ calls[c].status = IF pyperclip_available THEN "FallbackClipboard"
                                           ELSE "FallbackManualOpen"

\* C12: a publish call takes each step at most once, the write first; the
\* fallback steps (clipboard_copy, open_site) and the browser steps exclude each
\* other unless the fallback follows a failed browser step; an automated
\* outcome is reached only after every automated step; and a call that wrote
\* its file and has come to rest has one of the terminal outcomes: the
\* clipboard-or-manual fallback, AutomatedSuccess or AutomatedUncertain.
C12_PublishStateMachine ==
    \A c \in DOMAIN calls :
        calls[c].op \in {"open_ppt_generator", "open_mindmap_generator"}
            => LET steps == calls[c].steps
                   names == [i \in DOMAIN steps |-> steps[i].step]
                   automated ==
                       IF calls[c].op = "open_ppt_generator"
                       THEN <<"write_temp", "launch_browser", "click_upload", "send_file",
                              "click_generate">>
                       ELSE <<"write_temp", "launch_browser", "click_upload", "click_input">>
                   atRest ==
                       /\ steps # <<>>
                       /\ \A i \in DOMAIN stack : stack[i].call # c
                       /\ \A t \in threads : t.call # c
                       /\ \A i \in DOMAIN after_queue : after_queue[i].call # c
               IN /\ \A i, j \in DOMAIN names : names[i] = names[j] => i = j
                  /\ steps # <<>> => names[1] = "write_temp"
                  /\ calls[c].status \in {"AutomatedSuccess", "AutomatedUncertain",
                                          "InputActivated"} => names = automated
                  /\ atRest => calls[c].status \in
                         {"FallbackClipboard", "FallbackManualOpen", "AutomatedSuccess",
                          "AutomatedUncertain", "InputActivated"}

----------------------------------------------------------------------------
(* Loading and extraction *)

\* C13: when the extraction of a load fails, the document text, the document
\* path and the artifact are, after the failing step and when the handler
\* returns, what they were when load_and_preview_file was entered.
C13_FailedLoadKeepsSession ==
    [][/\ \A raw \in FileContents :
             (load_extract(raw) /\ extract_file_content(raw) = None)
                 => session' = Top.arg
       /\ load_failed => session' = Top.arg]_vars

\* C14: whatever the reader delivers, extract_file_content raises or returns a
\* text that is non-empty and neither starts nor ends with whitespace; and the
\* document text, once a load or reload has stored one, is such a text.
C14_ExtractedTextIsTrimmed ==
    LET Trimmed(t) == t # <<>> /\ Head(t) # " " /\ t[Len(t)] # " "
    IN /\ \A raw \in FileContents :
              extract_file_content(raw) # None => Trimmed(extract_file_content(raw))
       /\ current_file_content # <<>> => Trimmed(current_file_content)

\* a file of whitespace was refused and a file with whitespace around its text
\* was loaded
C14_LoadedAfterBlankFile ==
    /\ extract_file_content(<<" ", " ">>) = None
    /\ extract_file_content(<<" ", "x">>) = <<"x">>
    /\ \E i \in DOMAIN dialogs : dialogs[i].kind = "load_failed"
    /\ current_file_content = <<"x">>
    /\ stack = <<>>

\* C19: a load of a file that holds bytes outside UTF-8 stores the text the
\* GBK reading of the file gives, all of its characters kept, and does not
\* fail, the GBK reading being there.
C19_UndecodableFallsBackToGBK ==
    [][\A raw \in ByteFiles :
           (load_extract(raw) /\ \E i \in DOMAIN raw : raw[i] = GBKChar)
               => /\ stack' = Goto("log_loaded")
                  /\ current_file_content' = strip(decode(raw, "gbk"))]_vars

----------------------------------------------------------------------------
(* Prompts *)

\* C15: the prompt a generate call is accepted with holds the first
\* min(length, 500) characters of the document and no other character of it,
\* and the prompt a chat thread sends holds the first min(length, 1500); each
\* holds the three dots whenever the document is longer than its budget.
C15_PromptWithinBudget ==
    [][LET DocChars(p) == Cardinality({i \in DOMAIN p : p[i] \in {"x", "z", " "}})
           Within(p, budget) ==
               /\ DocChars(p) <= budget
               /\ SubSeq(p, 2, DocChars(p) + 1) =
                      SubSeq(current_file_content, 1, DocChars(p))
               /\ DocChars(p) < Len(current_file_content)
                      => /\ DocChars(p) = budget
                         /\ p[DocChars(p) + 2] = "..."
       IN /\ (Len(calls') > Len(calls) /\ calls'[Len(calls')].op = "generate")
               => Within(calls'[Len(calls')].arg, PromptBudget)
          /\ \A t \in threads :
                 (t.kind = "process_question" /\ process_request(t))
                     => \A u \in threads' \ threads : Within(u.arg, ChatBudget)]_vars

\* a document longer than both budgets: a generation was accepted with 500 of
\* its characters and the dots, and a question is out with 1500 and the dots
C15_BothPromptsTruncated ==
    /\ Len(current_file_content) = ChatBudget + 1
    /\ \E c \in DOMAIN calls :
           /\ calls[c].op = "generate"
           /\ Len(calls[c].arg) = PromptBudget + 3
           /\ calls[c].arg[PromptBudget + 2] = "..."
    /\ \E t \in threads :
           /\ t.kind = "process_question" /\ t.pc = "waiting"
           /\ Len(t.arg) = ChatBudget + 4
           /\ t.arg[ChatBudget + 2] = "..."

----------------------------------------------------------------------------
(* Threads *)

\* C16: a provider request and a browser step of a call are made by a worker
\* thread started for that call, not by a handler on the control thread, and
\* no call has more than one worker.
C16_BlockingCallsOnWorkers ==
    [][\A c \in DOMAIN calls :
           LET Workers(ts) == {t \in ts : t.call = c}
               browser == {"launch_browser", "click_upload", "send_file", "click_generate",
                           "click_input"}
           IN /\ calls'[c].requests > calls[c].requests
                    => /\ Workers(threads) # {}
                       /\ ~(stack # <<>> /\ Top.call = c /\ stack' # stack)
              /\ (/\ Len(calls'[c].steps) > Len(calls[c].steps)
                  /\ calls'[c].steps[Len(calls'[c].steps)].step \in browser)
                    => Workers(threads) # {}
              /\ Cardinality(Workers(threads')) <= 1]_vars

\* C17: a step taken by a worker thread (a thread moves on or ends) changes
\* no widget, no session value, no transcript, no dialog and no log entry: it
\* only posts callbacks; and the log never holds an entry a worker inserted.
C17_WorkersOnlyPostCallbacks ==
    [][/\ ~(threads \subseteq threads')
           => UNCHANGED <<session, buttons, chat, dialogs, stack, log_text>>
       /\ log_text' = {}]_vars

\* C20: a step of a worker thread leaves current_file_content and
\* generated_markdown as they are; the document text is written only by
\* load_and_preview_file and reload_file_for_chat and the artifact only by
\* generate_content, all handlers of the control thread.
C20_SessionWrittenByControlThread ==
    [][/\ ~(threads \subseteq threads')
           => UNCHANGED <<current_file_content, generated_markdown>>
       /\ current_file_content' # current_file_content
           => \/ Running("load_and_preview_file", "log_loading")
              \/ \E raw \in FileContents : reload_file_for_chat(raw)
       /\ generated_markdown' # generated_markdown
           => Running("generate_content", "update")]_vars

\* a question thread has read the document into its prompt while an artifact
\* stored by generate_content is there
C20_WorkerReadDocument ==
    /\ generated_markdown # <<>>
    /\ \E t \in threads :
           /\ t.kind = "process_question" /\ t.pc = "waiting"
           /\ t.arg = chat_prompt(current_file_content, t.question)

----------------------------------------------------------------------------
(* Buttons *)

\* C18: generate_content disables its button before its request and enables
\* it when it returns, whether the request succeeded or failed; ask_question
\* disables its button as it accepts, before any request, and the callback
\* that enables it again runs only after the response of that call was
\* appended; and every accepted call comes to that point.
C18_DisabledThenReenabled ==
    /\ [][/\ (Running("generate_content", "log_calling") /\ stack' = Goto("update"))
               => generate_btn' = DISABLED
          /\ \A c \in DOMAIN calls :
                 (calls[c].op = "generate" /\ calls'[c].requests > calls[c].requests)
                     => Running("generate_content", "update") /\ Top.call = c
          /\ (stack # <<>> /\ Top.h = "generate_content" /\ stack' = Pop)
               => generate_btn' = NORMAL
          /\ (Len(calls') > Len(calls) /\ calls'[Len(calls')].op = "ask")
               => ask_btn' = DISABLED /\ calls'[Len(calls')].requests = 0
          /\ enable_ask
               => /\ calls[Head(after_queue).call].steps # <<>>
                  /\ calls[Head(after_queue).call].requests = 1
                  /\ ask_btn' = NORMAL]_vars
    /\ \A c \in 1..MaxEvents :
           (IF c \in DOMAIN calls THEN calls[c].op = "generate" ELSE FALSE)
               ~> (IF c \in DOMAIN calls
                   THEN /\ \A i \in DOMAIN stack : stack[i].call # c
                        /\ calls[c].requests = 1
                        /\ generate_btn = NORMAL
                   ELSE FALSE)
    /\ \A c \in 1..MaxEvents :
           (IF c \in DOMAIN calls THEN calls[c].op = "ask" ELSE FALSE)
               ~> (IF c \in DOMAIN calls
                   THEN /\ \A t \in threads : t.call # c
                        /\ \A i \in DOMAIN after_queue : after_queue[i].call # c
                        /\ calls[c].steps # <<>>
                        /\ ask_btn = NORMAL
                   ELSE FALSE)

\* a generation that failed and a question that was answered have both come
\* to their end with their buttons enabled again
C18_BothButtonsBack ==
    /\ \E c \in DOMAIN calls :
           calls[c].op = "generate" /\ calls[c].status \notin {"running", "ok"}
    /\ \E c \in DOMAIN calls : calls[c].op = "ask" /\ calls[c].steps # <<>>
    /\ stack = <<>> /\ threads = {} /\ after_queue = <<>>
    /\ generate_btn = NORMAL /\ ask_btn = NORMAL

----------------------------------------------------------------------------
(* Re-entrancy *)

\* C21: at most one accepted generate_content call is in progress: no two
\* frames of generate_content are on the control thread's stack at once.
C21_OneGenerationInProgress ==
    Cardinality({i \in DOMAIN stack : stack[i].h = "generate_content"}) <= 1

\* C22: what a publish call sends to the site or copies to the clipboard is
\* the text it wrote to its temporary file when it was invoked, and no two
\* publish calls have the same temporary file.
C22_PublishesOwnArtifact ==
    LET Publish == {c \in DOMAIN calls :
                       calls[c].op \in {"open_ppt_generator", "open_mindmap_generator"}}
    IN /\ \A c \in Publish :
              \A i \in DOMAIN calls[c].steps :
                  calls[c].steps[i].step \in {"send_file", "clipboard_copy"}
                      => calls[c].steps[i].text = calls[c].steps[1].text
       /\ \A c, d \in Publish : calls[c].arg = calls[d].arg => c = d

----------------------------------------------------------------------------
(* The transcript and the document *)

\* C23: every entry of the transcript that answers a question (an assistant's
\* answer or the error message of a failed call) comes after the entry of
\* that question.
C23_AnswerAfterItsQuestion ==
    \A i \in DOMAIN conversation_history :
        (conversation_history[i].call # 0 /\ conversation_history[i].sender # YOU)
            => \E j \in 1..(i - 1) :
                   /\ conversation_history[j].sender = YOU
                   /\ conversation_history[j].call = conversation_history[i].call

\* C24: the prompt a question thread has sent is the prompt of the document
\* that was loaded when the question was accepted.
C24_PromptOfAcceptedDocument ==
    \A t \in threads :
        (t.kind = "process_question" /\ t.pc # "start")
            => t.arg = chat_prompt(calls[t.call].arg, t.question)

\* C25: with a provider that answers with the document excerpt it was sent,
\* the text a save or publish call writes is the document loaded at that
\* moment: the artifact acted on was generated from the current document.
C25_ArtifactOfCurrentDocument ==
    [][(/\ Len(calls') > Len(calls)
        /\ calls'[Len(calls')].op \in {"save_as_markdown", "open_ppt_generator",
                                       "open_mindmap_generator"}
        /\ calls'[Len(calls')].steps # <<>>)
           => calls'[Len(calls')].steps[1].text = current_file_content]_vars

\* C26: whenever the save button is enabled the artifact is non-empty, so a
\* generation that ends as a success has stored some text.
C26_SaveEnabledMeansArtifact ==
    save_btn = NORMAL => generated_markdown # <<>>
====
